---- MODULE Spec2Model ----
(***************************************************************************)
(* A model of miniscope_io.stream_daq.StreamDaq: the three stage processes *)
(* (_fpga_recv, _buffer_to_frame, _format_frame), the driver loop of       *)
(* capture(), the three bounded queues and the shared terminate event.     *)
(*                                                                         *)
(* The device stream is modelled at the granularity of 32-bit words: a     *)
(* chunk returned by readData is a sequence of words, the preamble is one  *)
(* word, the header is one word, and a payload word is four uint8 pixels.  *)
(***************************************************************************)
EXTENDS Integers, Sequences, FiniteSets, TLC

VARIABLES
    config,        \* self.config: the frame geometry of this StreamDaq
    terminate,     \* self.terminate (multiprocessing.Event)
    Q1,            \* serial_buffer_queue
    Q2,            \* frame_buffer_queue
    Q3,            \* imagearray
    f_pc,          \* position of the _fpga_recv process
    cur_buffer,    \* _fpga_recv: the rolling buffer (words)
    f_i,           \* _fpga_recv: index of the next (buf_start, buf_stop) pair
    nreads,        \* number of chunks the device has returned
    g_pc,          \* position of the _buffer_to_frame process
    serial_buffer, \* _buffer_to_frame: the item taken from Q1
    cur_fm_num,    \* _buffer_to_frame: cur_fm_num
    frame_buffer,  \* _buffer_to_frame: frame_buffer
    metadata_list, \* the shared list of headers
    a_pc,          \* position of the _format_frame process
    frame_data,    \* _format_frame: the item taken from Q2
    d_pc,          \* position of capture() in the calling process
    image,         \* capture(): the item taken from Q3
    p_idx,         \* capture(): index of the process being joined
    log,           \* observation record: what was put where, and why the run ended
    device,        \* the chunks dev.readData can return in this run
    binary,        \* capture(binary=...): whether a capture file is given
    binary_file,   \* the content of the capture file (words)
    kwargs,        \* capture(**kwargs): the keyword arguments the caller gives
    csv,           \* _buffer_to_frame: the rows appended to buffered_writer
    writer,        \* capture(): the video writer
    header_plotter, \* capture(): the StreamPlotter
    args,          \* the arguments of capture() or of a method called on its own
    ret            \* what that call returned

vars == <<config, terminate, Q1, Q2, Q3, f_pc, cur_buffer, f_i, nreads,
          g_pc, serial_buffer, cur_fm_num, frame_buffer, metadata_list,
          a_pc, frame_data, d_pc, image, p_idx, log, device, binary, kwargs, binary_file,
          kwargs, csv, writer, header_plotter, args, ret>>

-----------------------------------------------------------------------------
(* Bounds of the model *)

MaxReads == 3

-----------------------------------------------------------------------------
(* Configuration *)

\* runtime_config.serial_buffer_queue_size
serial_buffer_queue_size == 2

\* runtime_config.frame_buffer_queue_size
frame_buffer_queue_size == 2

\* runtime_config.image_buffer_queue_size
image_buffer_queue_size == 2

\* The preamble, as one 32-bit word of the stream.
Preamble == 9

\* Bits(self.config.preamble) of the configuration in use
pre == config.preamble

\* Device configurations a StreamDaq is built with (header_len is in bits):
\* a 3 x 2 frame in buffers of 4 pixels, so buffer_npix = [4, 2]; the
\* preamble is one word (two words in WideConfigs).
Configs ==
    { [frame_width |-> 3, frame_height |-> 2, buffer_block_length |-> 1,
       block_size |-> 8, header_len |-> 32, pix_depth |-> 8,
       preamble |-> <<Preamble>>] }

\* The sentinel None.
None == [none |-> TRUE]

-----------------------------------------------------------------------------
(* Sequence helpers *)

\* s[a:b] of Python, a and b 0-based, b exclusive
Slice(s, a, b) == SubSeq(s, a + 1, b)

\* np.zeros(n, dtype=np.uint8)
Zeros(n) == [i \in 1..n |-> 0]

RECURSIVE Concat(_)
\* np.concatenate(list of arrays)
Concat(ss) == IF ss = <<>> THEN <<>> ELSE Head(ss) \o Concat(Tail(ss))

\* cur_buffer.findall(pre): the 0-based positions of every occurrence, ascending
FindAll(buf, pat) ==
    LET n == Len(buf)
        m == Len(pat)
        P == { p \in 0..(n - m) : Slice(buf, p, p + m) = pat }
        RECURSIVE Asc(_, _)
        Asc(S, acc) ==
            IF S = {} THEN acc
            ELSE LET x == CHOOSE y \in S : \A z \in S : y <= z
                 IN  Asc(S \ {x}, Append(acc, x))
    IN  IF n < m THEN <<>> ELSE Asc(P, <<>>)

\* a queue that hands out the newest item first
QPutFront(q, item) == <<item>> \o q

\* Queue.put(item) on a queue with room: the item goes to the back
QPut(q, item) == Append(q, item)

-----------------------------------------------------------------------------
(* Derived quantities *)

\* StreamDaq.buffer_npix.  header_len / 8 is a float division, so px_per_buffer
\* and the remainder of divmod are floats; they are kept here in eighths of a
\* pixel (exact), and int() truncates them.
buffer_npix(c) ==
    LET px_per_frame    == c.frame_width * c.frame_height
        px_per_buffer_8 == 8 * c.buffer_block_length * c.block_size - c.header_len
        quotient        == (8 * px_per_frame) \div px_per_buffer_8
        remainder_8     == (8 * px_per_frame) % px_per_buffer_8
    IN  [i \in 1..quotient |-> px_per_buffer_8 \div 8] \o <<remainder_8 \div 8>>

\* StreamDaq.nbuffer_per_fm
nbuffer_per_fm(c) == Len(buffer_npix(c))

-----------------------------------------------------------------------------
(* Header decoder and trim *)

\* int(self.config.header_len / 32)
header_length_words(c) == c.header_len \div 32

\* int(len(Bits(self.config.preamble)) / 32), one word being 32 bits
preamble_length_words == Len(pre)

\* BufferFormatter.bytebuffer_to_ndarrays raises on a buffer that cannot hold
\* the preamble and the header.
ParseFails(c, buf) == Len(buf) < preamble_length_words + header_length_words(c)

\* StreamBufferHeader.from_format: the bit fields of the header word
\* (frame_buffer_count in the two low bits, frame_num above them).
HeaderOf(buf) ==
    LET w == buf[preamble_length_words + 1]
    IN  [frame_num |-> w \div 4, frame_buffer_count |-> w % 4]

\* The uint8 view of one little-endian 32-bit word.
WordBytes(w) == <<w % 256, (w \div 256) % 256, (w \div 65536) % 256, w \div 16777216>>

\* The payload ndarray (uint8) of a buffer: every word after preamble and header.
PayloadOf(c, buf) ==
    LET k == preamble_length_words + header_length_words(c)
    IN  Concat([i \in 1..(Len(buf) - k) |-> WordBytes(buf[k + i])])

\* _trim raises IndexError at expected_size_array[header.frame_buffer_count]
TrimRaises(expected_size_array, header) ==
    header.frame_buffer_count >= Len(expected_size_array)

\* a trim that pads a short payload in front
TrimPadFront(data, expected_size_array, header) ==
    LET expected_data_size == expected_size_array[header.frame_buffer_count + 1]
    IN  IF Len(data) > expected_data_size
        THEN Slice(data, 0, expected_data_size)
        ELSE Zeros(expected_data_size - Len(data)) \o data

\* StreamDaq._trim
Trim(data, expected_size_array, header) ==
    LET expected_data_size == expected_size_array[header.frame_buffer_count + 1]
    IN  IF Len(data) # expected_data_size
        THEN IF Len(data) > expected_data_size
             THEN Slice(data, 0, expected_data_size)
             ELSE data \o Zeros(expected_data_size - Len(data))
        ELSE data

\* frame_buffer_prealloc
frame_buffer_prealloc(c) ==
    [i \in 1..Len(buffer_npix(c)) |-> Zeros(buffer_npix(c)[i])]

\* the IndexError is not caught and ends the Grouper
AfterIndexErrorRaise == "finally"

\* lines 393-401: "except IndexError: ... continue": the Grouper goes on to the
\* next serial_buffer_queue.get
AfterIndexError == "get"

\* on the cancel flag the Grouper first puts the frame in progress
AfterBreakFlush == "put"

\* lines 375-376: "if self.terminate.is_set(): break" leads to the finally block
AfterBreak == "finally"

\* a frame starts with every buffer whose frame_buffer_count is 0
FirstBufferOfFrameByIndex(header, cur) == header.frame_buffer_count = 0

\* "if header_data.frame_num != cur_fm_num"
FirstBufferOfFrame(header, cur) == header.frame_num # cur

\* every buffer is discarded until a frame has been started
DiscardUntilStarted(header, cur) == cur = -1

\* the first frame is discarded when it does start at buffer 0
DiscardFirstFrameInverted(header, cur) == cur = -1 /\ header.frame_buffer_count = 0

\* "if cur_fm_num == -1 and header_data.frame_buffer_count != 0"
DiscardFirstFrame(header, cur) == cur = -1 /\ header.frame_buffer_count # 0

\* the new frame buffer keeps slot 0 of the previous frame
NewFrameBufferKeepsFirst(prealloc, previous) == [prealloc EXCEPT ![1] = previous[1]]

\* the frame buffer of the previous frame is used again as it is
NewFrameBufferReused(prealloc, previous) == previous

\* line 413: frame_buffer = frame_buffer_prealloc.copy()
NewFrameBuffer(prealloc, previous) == prealloc

\* a slot that holds a payload keeps it
StoreSlotOnce(fb, header, data) ==
    LET i == header.frame_buffer_count + 1
    IN  IF fb[i] = Zeros(Len(fb[i])) THEN [fb EXCEPT ![i] = data] ELSE fb

\* lines 425 and 428: frame_buffer[header_data.frame_buffer_count] = serial_buffer
StoreSlot(fb, header, data) == [fb EXCEPT ![header.frame_buffer_count + 1] = data]

\* lines 378-431 for one buffer, as a function of cur_fm_num and frame_buffer
\* (g) and the buffer: what happens to the buffer (event), the frame buffer
\* put on the queue if one is put, and the new cur_fm_num and frame_buffer
BufferToFrameBody(c, g, buf) ==
    IF ParseFails(c, buf)
    THEN [event |-> "raise", index |-> -1, put |-> <<>>,
          cur_fm_num |-> g.cur_fm_num, frame_buffer |-> g.frame_buffer]
    ELSE LET header_data == HeaderOf(buf)
             index == header_data.frame_buffer_count
         IN  IF TrimRaises(buffer_npix(c), header_data)
             THEN [event |-> "drop", index |-> index, put |-> <<>>,
                   cur_fm_num |-> g.cur_fm_num, frame_buffer |-> g.frame_buffer]
             ELSE LET data == Trim(PayloadOf(c, buf), buffer_npix(c), header_data)
                  IN  IF FirstBufferOfFrame(header_data, g.cur_fm_num)
                      THEN IF DiscardFirstFrame(header_data, g.cur_fm_num)
                           THEN [event |-> "discard", index |-> index, put |-> <<>>,
                                 cur_fm_num |-> g.cur_fm_num,
                                 frame_buffer |-> g.frame_buffer]
                           ELSE [event |-> "put", index |-> index,
                                 put |-> <<g.frame_buffer>>,
                                 cur_fm_num |-> header_data.frame_num,
                                 frame_buffer |->
                                     StoreSlot(NewFrameBuffer(frame_buffer_prealloc(c),
                                                              g.frame_buffer),
                                               header_data, data)]
                      ELSE [event |-> "store", index |-> index, put |-> <<>>,
                            cur_fm_num |-> g.cur_fm_num,
                            frame_buffer |-> StoreSlot(g.frame_buffer, header_data, data)]

-----------------------------------------------------------------------------
(* The device and the inputs of a run *)

\* capture(read_length=...): bytes per readData call
read_length == 12

\* Words a header can be: frame_num * 4 + frame_buffer_count
HeaderWords == {0, 1, 4, 6}

\* Chunks dev.readData(read_length) can return: a whole buffer (preamble,
\* header, one payload word), a preamble directly followed by another one
\* (a buffer too short for a header), and three words without a preamble.
Chunks ==
    { <<Preamble, h, 7>> : h \in HeaderWords }
        \cup { <<Preamble, Preamble, 0>>, <<7, 7, 7>> }

\* The values of capture()'s source argument
Sources == {"fpga", "other"}

\* capture(source, read_length=read_length): the keyword arguments of a call;
\* a keyword that is not given is not in the record and has its default
\* (None, or False for show_metadata)
DefaultKwargs == [read_length |-> read_length]

\* the keyword argument is given and is not None or False
Given(name) == name \in DOMAIN kwargs

\* the length is rounded up to a multiple of 16
ReadLengthCeil(c) ==
    LET npix == buffer_npix(c)
        max  == CHOOSE m \in {npix[i] : i \in 1..Len(npix)} :
                    \A i \in 1..Len(npix) : npix[i] <= m
    IN  ((max * c.pix_depth + 8 * 16 - 1) \div (8 * 16)) * 16

\* lines 292-293: read_length as given, or
\* int(max(self.buffer_npix) * self.config.pix_depth / 8 / 16) * 16; the
\* divisions are float divisions by powers of two, exact, and int() truncates
ReadLength(c) ==
    IF Given("read_length")
    THEN kwargs.read_length
    ELSE LET npix == buffer_npix(c)
             max  == CHOOSE m \in {npix[i] : i \in 1..Len(npix)} :
                         \A i \in 1..Len(npix) : npix[i] <= m
         IN  ((max * c.pix_depth) \div (8 * 16)) * 16

\* list(StreamBufferHeader.model_fields.keys()): the first row of the CSV
FieldNames == <<"frame_num", "frame_buffer_count">>

\* list(header_data.model_dump().values())
Row(header) == <<header.frame_num, header.frame_buffer_count>>

\* a writer that keeps only the row appended last
WriterAppendLast(rows, row) == <<row>>

\* BufferedCSVWriter.append(row)
WriterAppend(rows, row) == Append(rows, row)

\* A sink of the driver: how often it was instantiated and released
NoSink == [opened |-> 0, released |-> 0]

\* init_video(...) / StreamPlotter(...)
Opened(sink) == [sink EXCEPT !.opened = @ + 1]

\* a finally block that leaves the sink as it is
NotReleased(sink) == sink

\* writer.release() / header_plotter.close_plot()
Released(sink) == [sink EXCEPT !.released = @ + 1]

-----------------------------------------------------------------------------
(* Observation record *)

LogInit ==
    [put   |-> <<0, 0, 0>>,          \* data items put on Q1, Q2, Q3 by the stages
     sent  |-> <<0, 0, 0>>,          \* sentinels put on Q1, Q2, Q3
     late  |-> <<FALSE, FALSE, FALSE>>,  \* a data item was put after the sentinel
     count_cancel |-> FALSE,         \* after_cancel is kept (CancelSpec only)
     after_cancel |-> <<0, 0, 0>>,   \* data items put on Q1, Q2, Q3 with the event set
     proc  |-> <<0, 0>>,             \* items of Q1, Q2 processed by their consumer
     user_cancel |-> FALSE,          \* ESC, KeyboardInterrupt or exception in the driver loop
     stage_exc   |-> FALSE,          \* a stage raised an exception it does not handle
     q2tags |-> <<>>,                \* cur_fm_num of every slot array put on Q2
     q3tags |-> <<>>,                \* the same tag of every frame put on Q3
     stream |-> <<>>,                \* the chunks readData has returned, in order
     q1items |-> <<>>,               \* the buffers put on Q1, in order
     q2items |-> <<>>,               \* the slot arrays put on Q2, in order
     shown  |-> <<>>,                \* the images the driver loop has taken from Q3
     file0  |-> <<>>,                \* the capture file as it was before the run
     again  |-> FALSE]               \* this is a later capture, called with the event set

LogData(l, q) ==
    [l EXCEPT !.put[q] = @ + 1, !.late[q] = @ \/ l.sent[q] > 0,
              !.after_cancel[q] = IF l.count_cancel /\ terminate THEN @ + 1 ELSE @]

LogSentinel(l, q) == [l EXCEPT !.sent[q] = @ + 1]

-----------------------------------------------------------------------------
(* Initial state: a constructed StreamDaq, capture() not yet called *)

\* everything but the configuration; l: the observations kept about the run
ConstructedWith(l) ==
    /\ terminate = FALSE
    /\ Q1 = <<>> /\ Q2 = <<>> /\ Q3 = <<>>
    /\ f_pc = "idle" /\ cur_buffer = <<>> /\ f_i = 0 /\ nreads = 0
    /\ g_pc = "idle" /\ serial_buffer = None /\ cur_fm_num = -1
    /\ frame_buffer = <<>> /\ metadata_list = <<>>
    /\ a_pc = "idle" /\ frame_data = None
    /\ d_pc = "start" /\ image = None /\ p_idx = 0
    /\ csv = <<>> /\ writer = NoSink /\ header_plotter = NoSink
    /\ log = [l EXCEPT !.file0 = binary_file]
    /\ ret = None

Constructed == ConstructedWith(LogInit)

\* capture() without a capture file
NoBinary ==
    /\ binary = FALSE
    /\ binary_file = <<>>

\* a device that returns the chunks of Chunks
WordDevice == device = Chunks

Init ==
    /\ config \in Configs
    /\ WordDevice
    /\ NoBinary
    /\ kwargs = DefaultKwargs
    /\ Constructed
    /\ args = <<>>

f_vars == <<f_pc, cur_buffer, f_i, nreads, binary_file>>
g_vars == <<g_pc, serial_buffer, cur_fm_num, frame_buffer, metadata_list, csv>>
a_vars == <<a_pc, frame_data>>
d_vars == <<d_pc, image, p_idx, writer, header_plotter>>
h_vars == <<args, ret>>

-----------------------------------------------------------------------------
(* _fpga_recv *)

\* lines 287-307: the checks before the read loop; HAVE_OK and the bitfile
\* are inputs of the run
fpga_recv_init ==
    /\ f_pc = "init"
    /\ \E ok \in BOOLEAN :
         IF ok
         THEN /\ f_pc' = "loop"
              /\ cur_buffer' = <<>>
              /\ log' = log
         ELSE /\ f_pc' = "failed"
              /\ cur_buffer' = cur_buffer
              /\ log' = [log EXCEPT !.stage_exc = TRUE]
    /\ UNCHANGED <<h_vars, config, device, binary, kwargs, terminate, Q1, Q2, Q3, f_i, nreads,
                   binary_file, g_vars, a_vars, d_vars>>

\* the file is opened for writing: the chunk replaces its content
FileWrite(file, buf) == buf

\* lines 317-319: with open(capture_binary, "ab") as file: file.write(buf)
FileAppend(file, buf) == file \o buf

\* after the sentinel the Framer goes round the loop again
AfterSentinelContinue == "loop"

\* line 315: break, which ends _fpga_recv
AfterSentinel == "done"

\* pre_pos of the rolling buffer
PrePos(buf) == FindAll(buf, pre)

\* a rolling buffer without a preamble is not carried over to the next read
TruncatedNoCarry(buf) ==
    LET pre_pos == PrePos(buf)
    IN  IF pre_pos # <<>> THEN Slice(buf, pre_pos[Len(pre_pos)], Len(buf)) ELSE <<>>

\* the rolling buffer cut at the first preamble instead of the last
TruncatedAtFirst(buf) ==
    LET pre_pos == PrePos(buf)
    IN  IF pre_pos # <<>> THEN Slice(buf, pre_pos[1], Len(buf)) ELSE buf

\* the rolling buffer after "if pre_pos: cur_buffer = cur_buffer[pre_pos[-1]:]"
Truncated(buf) ==
    LET pre_pos == PrePos(buf)
    IN  IF pre_pos # <<>> THEN Slice(buf, pre_pos[Len(pre_pos)], Len(buf)) ELSE buf

\* the i-th item of zip(pre_pos[:-1], pre_pos[1:]) cut out of the buffer (pre_first)
BufferAt(buf, i) ==
    LET pre_pos == PrePos(buf)
    IN  Slice(buf, pre_pos[i], pre_pos[i + 1])

\* lines 309-323: the loop test, one readData and the append to the capture file
fpga_recv_read ==
    /\ f_pc = "loop"
    /\ IF terminate
       THEN /\ f_pc' = "done"
            /\ UNCHANGED <<terminate, cur_buffer, f_i, nreads, binary_file, log>>
       ELSE \/ \E buf \in device :
                 /\ Len(buf) * 4 = ReadLength(config)
                 /\ nreads < MaxReads
                 /\ nreads' = nreads + 1
                 /\ LET cur == cur_buffer \o buf
                    IN  IF Len(PrePos(cur)) >= 2
                        THEN /\ cur_buffer' = cur
                             /\ f_i' = 1
                             /\ f_pc' = "put"
                        ELSE /\ cur_buffer' = Truncated(cur)
                             /\ f_i' = f_i
                             /\ f_pc' = "loop"
                 /\ terminate' = terminate
                 /\ binary_file' = IF binary THEN FileAppend(binary_file, buf)
                                              ELSE binary_file
                 /\ log' = [log EXCEPT !.stream = Append(@, buf)]
            \/ /\ terminate' = TRUE
               /\ f_pc' = "sentinel"
               /\ UNCHANGED <<cur_buffer, f_i, nreads, binary_file, log>>
    /\ UNCHANGED <<h_vars, config, device, binary, kwargs, Q1, Q2, Q3, g_vars, a_vars, d_vars>>

\* line 330: one serial_buffer_queue.put of the for loop, and lines 331-332
\* after the last one
fpga_recv_put ==
    /\ f_pc = "put"
    /\ Len(Q1) < serial_buffer_queue_size
    /\ Q1' = QPut(Q1, [buf |-> BufferAt(cur_buffer, f_i)])
    /\ log' = [LogData(log, 1) EXCEPT !.q1items = Append(@, BufferAt(cur_buffer, f_i))]
    /\ IF f_i + 1 < Len(PrePos(cur_buffer))
       THEN /\ f_i' = f_i + 1
            /\ UNCHANGED <<f_pc, cur_buffer>>
       ELSE /\ f_i' = 0
            /\ cur_buffer' = Truncated(cur_buffer)
            /\ f_pc' = "loop"
    /\ UNCHANGED <<h_vars, config, device, binary, kwargs, terminate, Q2, Q3, nreads, binary_file,
                   g_vars, a_vars, d_vars>>

\* lines 314-315: serial_buffer_queue.put(None); break
fpga_recv_sentinel ==
    /\ f_pc = "sentinel"
    /\ Len(Q1) < serial_buffer_queue_size
    /\ Q1' = QPut(Q1, None)
    /\ log' = LogSentinel(log, 1)
    /\ f_pc' = AfterSentinel
    /\ UNCHANGED <<h_vars, config, device, binary, kwargs, terminate, Q2, Q3, cur_buffer, f_i, nreads,
                   binary_file, g_vars, a_vars, d_vars>>

-----------------------------------------------------------------------------
(* _buffer_to_frame *)

\* line 374: serial_buffer_queue.get() inside exact_iter
buffer_to_frame_get ==
    /\ g_pc = "get"
    /\ Q1 # <<>>
    /\ Q1' = Tail(Q1)
    /\ IF Head(Q1) = None
       THEN /\ g_pc' = "finally"
            /\ serial_buffer' = serial_buffer
       ELSE /\ g_pc' = "check"
            /\ serial_buffer' = Head(Q1)
    /\ UNCHANGED <<h_vars, config, device, binary, kwargs, terminate, Q2, Q3, f_vars, cur_fm_num, frame_buffer,
                   metadata_list, csv, a_vars, d_vars, log>>

\* a stage that never looks at the event
CancelledNever(event) == FALSE

\* lines 375 and 465: if self.terminate.is_set()
Cancelled(event) == event

\* lines 375-431 for one buffer, up to frame_buffer_queue.put
buffer_to_frame_step ==
    /\ g_pc = "check"
    /\ LET buf == serial_buffer.buf
       IN  IF Cancelled(terminate)
           THEN \* break
                /\ g_pc' = AfterBreak
                /\ UNCHANGED <<frame_buffer, metadata_list, csv, log>>
           ELSE IF ParseFails(config, buf)
           THEN \* _parse_header raises: nothing catches it before the finally
                /\ g_pc' = "finally"
                /\ log' = [log EXCEPT !.stage_exc = TRUE]
                /\ UNCHANGED <<frame_buffer, metadata_list, csv>>
           ELSE LET header_data == HeaderOf(buf)
                IN  /\ metadata_list' = Append(metadata_list, header_data)
                    /\ csv' = IF Given("metadata")
                              THEN WriterAppend(csv, Row(header_data))
                              ELSE csv
                    /\ log' = [log EXCEPT !.proc[1] = @ + 1]
                    /\ IF TrimRaises(buffer_npix(config), header_data)
                       THEN \* except IndexError: continue
                            /\ g_pc' = AfterIndexError
                            /\ frame_buffer' = frame_buffer
                       ELSE IF FirstBufferOfFrame(header_data, cur_fm_num)
                       THEN IF DiscardFirstFrame(header_data, cur_fm_num)
                            THEN /\ g_pc' = "get"
                                 /\ frame_buffer' = frame_buffer
                            ELSE /\ g_pc' = "put"
                                 /\ frame_buffer' = frame_buffer
                       ELSE /\ g_pc' = "get"
                            /\ frame_buffer' =
                                 StoreSlot(frame_buffer, header_data,
                                     Trim(PayloadOf(config, buf), buffer_npix(config), header_data))
    /\ UNCHANGED <<h_vars, config, device, binary, kwargs, terminate, Q1, Q2, Q3, f_vars, serial_buffer, cur_fm_num,
                   a_vars, d_vars>>

\* lines 410-425: frame_buffer_queue.put(frame_buffer) and the start of the
\* new frame
buffer_to_frame_put ==
    /\ g_pc = "put"
    /\ Len(Q2) < frame_buffer_queue_size
    /\ LET buf == serial_buffer.buf
           header_data == HeaderOf(buf)
       IN  /\ Q2' = QPut(Q2, [slots |-> frame_buffer, fm |-> cur_fm_num])
           /\ log' = [LogData(log, 2) EXCEPT !.q2tags = Append(@, cur_fm_num),
                                             !.q2items = Append(@, frame_buffer)]
           /\ cur_fm_num' = header_data.frame_num
           /\ frame_buffer' =
                StoreSlot(NewFrameBuffer(frame_buffer_prealloc(config), frame_buffer),
                          header_data,
                          Trim(PayloadOf(config, buf), buffer_npix(config), header_data))
    /\ g_pc' = "get"
    /\ UNCHANGED <<h_vars, config, device, binary, kwargs, terminate, Q1, Q3, f_vars, serial_buffer, metadata_list, csv,
                   a_vars, d_vars>>

\* lines 433-436: finally: frame_buffer_queue.put(None)
buffer_to_frame_finally ==
    /\ g_pc = "finally"
    /\ Len(Q2) < frame_buffer_queue_size
    /\ Q2' = QPut(Q2, None)
    /\ log' = LogSentinel(log, 2)
    /\ g_pc' = "done"
    /\ UNCHANGED <<h_vars, config, device, binary, kwargs, terminate, Q1, Q3, f_vars, serial_buffer, cur_fm_num,
                   frame_buffer, metadata_list, csv, a_vars, d_vars>>

-----------------------------------------------------------------------------
(* _format_frame *)

\* the concatenated pixels, whatever their number
FormatFrameNoCheck(c, slots) ==
    [shape |-> <<c.frame_width, c.frame_height>>, data |-> Concat(slots)]

\* lines 471-489: concatenate and reshape, or the all-zero frame
FormatFrame(c, slots) ==
    LET data == Concat(slots)
    IN  IF Len(data) = c.frame_width * c.frame_height
        THEN [shape |-> <<c.frame_width, c.frame_height>>, data |-> data]
        ELSE [shape |-> <<c.frame_width, c.frame_height>>,
              data  |-> Zeros(c.frame_width * c.frame_height)]

\* line 464: frame_buffer_queue.get() inside exact_iter
format_frame_get ==
    /\ a_pc = "get"
    /\ Q2 # <<>>
    /\ Q2' = Tail(Q2)
    /\ IF Head(Q2) = None
       THEN /\ a_pc' = "finally"
            /\ frame_data' = frame_data
       ELSE /\ a_pc' = "check"
            /\ frame_data' = Head(Q2)
    /\ UNCHANGED <<h_vars, config, device, binary, kwargs, terminate, Q1, Q3, f_vars, g_vars, d_vars, log>>

\* lines 465-489 for one slot array, up to imagearray.put
format_frame_step ==
    /\ a_pc = "check"
    /\ IF Cancelled(terminate)
       THEN /\ a_pc' = "finally"
            /\ log' = log
       ELSE /\ a_pc' = IF Len(frame_data.slots) = 0 THEN "get" ELSE "put"
            /\ log' = [log EXCEPT !.proc[2] = @ + 1]
    /\ UNCHANGED <<h_vars, config, device, binary, kwargs, terminate, Q1, Q2, Q3, f_vars, g_vars, frame_data, d_vars>>

\* line 491: imagearray.put(frame)
format_frame_put ==
    /\ a_pc = "put"
    /\ Len(Q3) < image_buffer_queue_size
    /\ Q3' = QPut(Q3, FormatFrame(config, frame_data.slots))
    /\ log' = [LogData(log, 3) EXCEPT !.q3tags = Append(@, frame_data.fm)]
    /\ a_pc' = "get"
    /\ UNCHANGED <<h_vars, config, device, binary, kwargs, terminate, Q1, Q2, f_vars, g_vars, frame_data, d_vars>>

\* lines 492-493: finally: imagearray.put(None)
format_frame_finally ==
    /\ a_pc = "finally"
    /\ Len(Q3) < image_buffer_queue_size
    /\ Q3' = QPut(Q3, None)
    /\ log' = LogSentinel(log, 3)
    /\ a_pc' = "done"
    /\ UNCHANGED <<h_vars, config, device, binary, kwargs, terminate, Q1, Q2, f_vars, g_vars, frame_data, d_vars>>

-----------------------------------------------------------------------------
(* capture() *)

\* the stage processes, in the order capture() joins them
Stages == <<"recv", "buffer_to_frame", "format_frame">>

\* a process that has returned or died of an exception is no longer alive
Exited(pc) == pc \in {"done", "failed", "killed"}

\* join(timeout=5) alone: a process still alive after the timeout stays alive
JoinedNoTerminate(pc) == pc

\* lines 677-681: p.join(timeout=5); if p.is_alive(): p.terminate(); p.join()
Joined(pc) == IF Exited(pc) THEN pc ELSE "killed"

\* imagearray.put(np.zeros(int(frame_width * frame_height), np.uint8)): 1-D
Placeholder(c) ==
    [shape |-> <<c.frame_width * c.frame_height>>,
     data  |-> Zeros(c.frame_width * c.frame_height)]

\* the event is left as the previous capture left it
NotCleared(event) == event

\* line 568: self.terminate.clear()
Clear(event) == FALSE

\* no check of the source: whatever it is, the FPGA Framer is started
AnySource(source) == TRUE

\* line 590: elif source == "fpga" (line 597: else: raise ValueError)
SourceIsFpga(source) == source = "fpga"

\* lines 568-630: clear the event, make the queues, put the placeholder, check
\* the source, start the three processes
capture_start ==
    /\ d_pc = "start"
    /\ terminate' = Clear(terminate)
    /\ Q1' = <<>> /\ Q2' = <<>>
    /\ Q3' = <<Placeholder(config)>>
    /\ metadata_list' = <<>>
    /\ \E source \in Sources :
         /\ args' = <<source>>
         /\ IF SourceIsFpga(source)
            THEN /\ f_pc' = "init" /\ g_pc' = "get" /\ a_pc' = "get"
                 /\ cur_fm_num' = -1
                 /\ frame_buffer' = frame_buffer_prealloc(config)
                 \* lines 365-369: the Grouper opens the CSV with the field names
                 /\ csv' = IF Given("metadata")
                           THEN WriterAppend(csv, FieldNames) ELSE csv
                 \* lines 601-606, 633-639: the sinks of the driver
                 /\ writer' = IF Given("video") THEN Opened(writer) ELSE writer
                 /\ header_plotter' = IF Given("show_metadata")
                                      THEN Opened(header_plotter) ELSE header_plotter
                 /\ d_pc' = "get"
            ELSE \* raise ValueError
                 /\ d_pc' = "raised"
                 /\ UNCHANGED <<f_pc, g_pc, a_pc, cur_fm_num, frame_buffer, csv,
                                writer, header_plotter>>
    /\ UNCHANGED <<ret, config, device, binary, kwargs, cur_buffer, f_i, nreads, binary_file,
                   serial_buffer, frame_data, image, p_idx, log>>

\* line 642: imagearray.get() inside exact_iter
capture_get ==
    /\ d_pc = "get"
    /\ Q3 # <<>>
    /\ Q3' = Tail(Q3)
    /\ IF Head(Q3) = None
       THEN /\ d_pc' = "finally"
            /\ image' = image
            /\ log' = log
       ELSE /\ d_pc' = "show"
            /\ image' = Head(Q3)
            /\ log' = [log EXCEPT !.shown = Append(@, Head(Q3).data)]
    /\ UNCHANGED <<h_vars, config, device, binary, kwargs, terminate, Q1, Q2, f_vars, g_vars, a_vars, p_idx,
                   writer, header_plotter>>

\* lines 643-658: show the image (ESC sets the event and leaves the loop),
\* write it, update the plot
capture_show ==
    /\ d_pc = "show"
    /\ \E key \in {27, -1} :
         IF key = 27
         THEN /\ terminate' = TRUE
              /\ d_pc' = "finally"
              /\ log' = [log EXCEPT !.user_cancel = TRUE]
         ELSE /\ d_pc' = "get"
              /\ UNCHANGED <<terminate, log>>
    /\ UNCHANGED <<h_vars, config, device, binary, kwargs, Q1, Q2, Q3, f_vars, g_vars, a_vars, image, p_idx,
                   writer, header_plotter>>

\* an except clause that only logs leaves the event as it is
AfterExceptLogged(event) == event

\* lines 661 and 664: self.terminate.set() in both except clauses
AfterExcept(event) == TRUE

\* lines 660-664: KeyboardInterrupt or another exception inside the try
capture_interrupt ==
    /\ d_pc \in {"get", "show"}
    /\ \E exc \in {"KeyboardInterrupt", "Exception"} :
         /\ terminate' = AfterExcept(terminate)
         /\ d_pc' = "finally"
         /\ log' = [log EXCEPT !.user_cancel = TRUE]
    /\ UNCHANGED <<h_vars, config, device, binary, kwargs, Q1, Q2, Q3, f_vars, g_vars, a_vars, image, p_idx,
                   writer, header_plotter>>

\* lines 665-673: release the sinks
capture_finally ==
    /\ d_pc = "finally"
    /\ d_pc' = "join"
    /\ p_idx' = 1
    /\ writer' = IF Given("video") THEN Released(writer) ELSE writer
    /\ header_plotter' = IF Given("show_metadata")
                         THEN Released(header_plotter) ELSE header_plotter
    /\ UNCHANGED <<h_vars, config, device, binary, kwargs, terminate, Q1, Q2, Q3, f_vars, g_vars, a_vars, image, log>>

\* lines 676-682: p.join(timeout=5); a process still alive is terminated
capture_join ==
    /\ d_pc = "join"
    /\ LET p == Stages[p_idx]
       IN  \* join returns because the process exited, or because the
           \* timeout passed with the process still alive
           /\ f_pc' = IF p = "recv" THEN Joined(f_pc) ELSE f_pc
           /\ g_pc' = IF p = "buffer_to_frame" THEN Joined(g_pc) ELSE g_pc
           /\ a_pc' = IF p = "format_frame" THEN Joined(a_pc) ELSE a_pc
    /\ IF p_idx < Len(Stages)
       THEN /\ p_idx' = p_idx + 1
            /\ d_pc' = d_pc
       ELSE /\ p_idx' = 0
            /\ d_pc' = "returned"
    /\ UNCHANGED <<h_vars, config, device, binary, kwargs, terminate, Q1, Q2, Q3, cur_buffer, f_i, nreads,
                   binary_file, serial_buffer, cur_fm_num, frame_buffer, metadata_list, csv,
                   frame_data, image, log, writer, header_plotter>>

-----------------------------------------------------------------------------
(* Specifications *)

Next ==
    \/ capture_start
    \/ fpga_recv_init
    \/ fpga_recv_read
    \/ fpga_recv_put
    \/ fpga_recv_sentinel
    \/ buffer_to_frame_get
    \/ buffer_to_frame_step
    \/ buffer_to_frame_put
    \/ buffer_to_frame_finally
    \/ format_frame_get
    \/ format_frame_step
    \/ format_frame_put
    \/ format_frame_finally
    \/ capture_get
    \/ capture_show
    \/ capture_interrupt
    \/ capture_finally
    \/ capture_join

Spec == Init /\ [][Next]_vars

\* The steps of each process.  Every process is an operating-system process
\* (the driver is the caller's), so each one that can take a step eventually
\* does; nothing makes the user press ESC or Ctrl-C, so capture_interrupt and
\* the ESC branch of capture_show carry no fairness of their own.
Framer == fpga_recv_init \/ fpga_recv_read \/ fpga_recv_put \/ fpga_recv_sentinel

Grouper ==
    buffer_to_frame_get \/ buffer_to_frame_step \/ buffer_to_frame_put
        \/ buffer_to_frame_finally

Assembler ==
    format_frame_get \/ format_frame_step \/ format_frame_put \/ format_frame_finally

Driver == capture_start \/ capture_get \/ capture_show \/ capture_finally \/ capture_join

FairSpec ==
    /\ Init /\ [][Next]_vars
    /\ WF_vars(Framer) /\ WF_vars(Grouper) /\ WF_vars(Assembler) /\ WF_vars(Driver)

\* What the capture file can hold before capture(binary=...) is called
InitialFiles == { <<>>, <<5, 5>> }

\* capture(source, binary=path)
BinaryInit ==
    /\ config \in Configs
    /\ WordDevice
    /\ binary = TRUE
    /\ binary_file \in InitialFiles
    /\ kwargs = DefaultKwargs
    /\ Constructed
    /\ args = <<>>

BinarySpec == BinaryInit /\ [][Next]_vars

\* A configuration whose preamble is two words long, so that an occurrence
\* of it can lie across two chunks and two occurrences can overlap
WideConfigs ==
    { [c EXCEPT !.preamble = <<Preamble, Preamble>>] : c \in Configs }

\* Every chunk of read_length bytes made of the preamble word and the header
\* word of buffer 0 of frame 1
WideChunks == [1..(read_length \div 4) -> {Preamble, 4}]

\* capture(source) on a device with the two-word preamble
FramerInit ==
    /\ config \in WideConfigs
    /\ device = WideChunks
    /\ NoBinary
    /\ kwargs = DefaultKwargs
    /\ Constructed
    /\ args = <<>>

FramerSpec == FramerInit /\ [][Next]_vars

\* A configuration whose header_len is not a multiple of 8: px_per_buffer is
\* 8 - 44 / 8 = 2.5, buffer_npix = [2, 0], and the slots of a frame hold 2
\* pixels where the frame has 3
UnevenConfigs ==
    { [frame_width |-> 3, frame_height |-> 1, buffer_block_length |-> 1,
       block_size |-> 8, header_len |-> 44, pix_depth |-> 8,
       preamble |-> <<Preamble>>] }

\* capture(source) on a device of that configuration
UnevenInit ==
    /\ config \in UnevenConfigs
    /\ WordDevice
    /\ NoBinary
    /\ kwargs = DefaultKwargs
    /\ Constructed
    /\ args = <<>>

UnevenSpec == UnevenInit /\ [][Next]_vars

\* capture(source, metadata=path, video=path) and
\* capture(source, show_metadata=True)
SinkKwargs ==
    { [read_length |-> read_length, metadata |-> "output.csv", video |-> "output.avi"],
      [read_length |-> read_length, show_metadata |-> TRUE] }

SinkInit ==
    /\ config \in Configs
    /\ WordDevice
    /\ NoBinary
    /\ kwargs \in SinkKwargs
    /\ Constructed
    /\ args = <<>>

SinkSpec == SinkInit /\ [][Next]_vars

\* capture() is called again on the same StreamDaq after it has returned or
\* raised: everything local to the call is new, self.terminate is as the
\* previous capture left it
capture_again ==
    /\ d_pc \in {"returned", "raised"}
    /\ d_pc' = "start" /\ image' = None /\ p_idx' = 0
    /\ terminate' = terminate
    /\ Q1' = <<>> /\ Q2' = <<>> /\ Q3' = <<>>
    /\ f_pc' = "idle" /\ cur_buffer' = <<>> /\ f_i' = 0 /\ nreads' = 0
    /\ g_pc' = "idle" /\ serial_buffer' = None /\ cur_fm_num' = -1
    /\ frame_buffer' = <<>> /\ metadata_list' = <<>>
    /\ a_pc' = "idle" /\ frame_data' = None
    /\ csv' = <<>> /\ writer' = NoSink /\ header_plotter' = NoSink
    /\ log' = [LogInit EXCEPT !.file0 = binary_file, !.again = terminate]
    /\ args' = <<>>
    /\ UNCHANGED <<ret, config, device, binary, binary_file, kwargs>>

AgainNext == Next \/ capture_again

AgainSpec == Init /\ [][AgainNext]_vars

\* capture() with the puts made while the event is set counted
CancelInit ==
    /\ config \in Configs
    /\ WordDevice
    /\ NoBinary
    /\ kwargs = DefaultKwargs
    /\ ConstructedWith([LogInit EXCEPT !.count_cancel = TRUE])
    /\ args = <<>>

CancelSpec == CancelInit /\ [][Next]_vars

\* Every chunk of one, two or three words made of the preamble word and the
\* header word of buffer 0 of frame 1
AnyChunks == UNION { [1..n -> {Preamble, 4}] : n \in 1..(read_length \div 4) }

\* capture(source, read_length=4), (source, read_length=8) and
\* (source, read_length=12) on a device with the two-word preamble
ChunkInit ==
    /\ config \in WideConfigs
    /\ device = AnyChunks
    /\ NoBinary
    /\ kwargs \in { [read_length |-> 4 * n] : n \in 1..(read_length \div 4) }
    /\ Constructed
    /\ args = <<>>

ChunkSpec == ChunkInit /\ [][Next]_vars

\* Configurations whose largest buffer holds 16 or 32 pixels, of 8 or 10 bits
LargeConfigs ==
    { [frame_width |-> 4, frame_height |-> 4, buffer_block_length |-> 1,
       block_size |-> 20, header_len |-> 32, pix_depth |-> 8,
       preamble |-> <<Preamble>>],
      [frame_width |-> 4, frame_height |-> 4, buffer_block_length |-> 1,
       block_size |-> 20, header_len |-> 32, pix_depth |-> 10,
       preamble |-> <<Preamble>>],
      [frame_width |-> 8, frame_height |-> 4, buffer_block_length |-> 1,
       block_size |-> 36, header_len |-> 32, pix_depth |-> 8,
       preamble |-> <<Preamble>>] }

\* Chunks of 16 bytes and of 32 bytes the device can return
LargeChunks ==
    { <<Preamble, h, 7, 7>> : h \in HeaderWords }
        \cup { <<7, 7, 7, 7>> }
        \cup { <<Preamble, h, 7, 7, 7, 7, 7, 7>> : h \in {0, 4} }
        \cup { <<7, 7, 7, 7, Preamble, 4, 7, 7>> }

\* capture(source, show_video=True): read_length is not given
LengthInit ==
    /\ config \in LargeConfigs
    /\ device = LargeChunks
    /\ NoBinary
    /\ kwargs = [show_video |-> TRUE]
    /\ Constructed
    /\ args = <<>>

LengthSpec == LengthInit /\ [][Next]_vars

-----------------------------------------------------------------------------
(* Methods called on their own *)

MaxWidth == 4

\* Device configurations with px_per_buffer > 0, header_len a multiple of 8 or not
NpixConfigs ==
    { c \in [frame_width : 1..MaxWidth, frame_height : 1..2,
              buffer_block_length : 1..2, block_size : {4, 8},
              header_len : {8, 12, 16, 32}, pix_depth : {8},
              preamble : {<<Preamble>>}] :
        8 * c.buffer_block_length * c.block_size - c.header_len > 0 }

NpixInit ==
    /\ config \in NpixConfigs
    /\ WordDevice
    /\ NoBinary
    /\ kwargs = DefaultKwargs
    /\ Constructed
    /\ args = <<>>

\* self.buffer_npix read on a fresh StreamDaq
call_buffer_npix ==
    /\ ret = None
    /\ ret' = [val |-> buffer_npix(config)]
    /\ UNCHANGED <<config, device, binary, kwargs, terminate, Q1, Q2, Q3, f_vars, g_vars,
                   a_vars, d_vars, log, args>>

NpixNext == call_buffer_npix

NpixSpec == NpixInit /\ [][NpixNext]_vars

MaxPayload == 5

\* uint8 arrays of up to MaxPayload bytes
Payloads == UNION { [1..n -> {0, 3}] : n \in 0..MaxPayload }

\* _trim(data, expected_size_array, header, logger): the arguments; the header's
\* frame_buffer_count is in range or one past the end
TrimArgs ==
    UNION { { [data |-> d, expected_size_array |-> buffer_npix(c),
               header |-> [frame_num |-> 0, frame_buffer_count |-> k]] :
                 d \in Payloads, k \in 0..nbuffer_per_fm(c) } : c \in Configs }

TrimInit ==
    /\ config \in Configs
    /\ WordDevice
    /\ NoBinary
    /\ kwargs = DefaultKwargs
    /\ Constructed
    /\ args \in TrimArgs

Unchanged_pipeline ==
    UNCHANGED <<config, device, binary, kwargs, terminate, Q1, Q2, Q3, f_vars, g_vars,
                a_vars, d_vars, log>>

\* self._trim(data, expected_size_array, header, logger)
call_trim ==
    /\ ret = None
    /\ ret' = IF TrimRaises(args.expected_size_array, args.header)
              THEN [raised |-> "IndexError"]
              ELSE [val |-> Trim(args.data, args.expected_size_array, args.header)]
    /\ args' = args
    /\ Unchanged_pipeline

\* self._trim applied to what self._trim returned
call_trim_again ==
    /\ DOMAIN ret = {"val"}
    /\ ret' = [val   |-> ret.val,
               again |-> Trim(ret.val, args.expected_size_array, args.header)]
    /\ args' = args
    /\ Unchanged_pipeline

TrimNext == call_trim \/ call_trim_again

TrimSpec == TrimInit /\ [][TrimNext]_vars

\* number of buffers of a stream given to the Grouper on its own
MaxBuffers == 3

\* payload words; neither is the preamble word
PayloadWords == {7, 8}

\* The same buffer in two streams that differ in payload bytes only: the same
\* length and header, any two payload words.  A buffer is the preamble alone
\* (too short to decode), preamble and header, or preamble, header and payload.
BufferPairs ==
    { <<<<Preamble>>, <<Preamble>>>> }
        \cup { <<<<Preamble, h>>, <<Preamble, h>>>> : h \in HeaderWords }
        \cup { <<<<Preamble, h, x>>, <<Preamble, h, y>>>> :
                   h \in HeaderWords, x \in PayloadWords, y \in PayloadWords }

\* two streams of MaxBuffers buffers, a and b
PairArgs ==
    { [a |-> [i \in 1..MaxBuffers |-> ps[i][1]],
       b |-> [i \in 1..MaxBuffers |-> ps[i][2]]] : ps \in [1..MaxBuffers -> BufferPairs] }

PairInit ==
    /\ config \in Configs
    /\ WordDevice
    /\ NoBinary
    /\ kwargs = DefaultKwargs
    /\ Constructed
    /\ args \in PairArgs

\* lines 363-372, in one Grouper for each stream: cur_fm_num = -1 and
\* frame_buffer = frame_buffer_prealloc.copy()
buffer_to_frame_pair_start ==
    /\ ret = None
    /\ LET g == [cur_fm_num |-> -1, frame_buffer |-> frame_buffer_prealloc(config)]
       IN  ret' = [i |-> 0, a |-> g, b |-> g,
                   event_a |-> "start", event_b |-> "start",
                   index_a |-> -1, index_b |-> -1,
                   put_a |-> <<>>, put_b |-> <<>>,
                   changed |-> FALSE, put_changed |-> FALSE,
                   written |-> {}, put_written |-> {}]
    /\ args' = args
    /\ Unchanged_pipeline

\* lines 378-431 for the next buffer of each stream.  changed: a payload that
\* differs between the streams was stored in the frame in progress; written:
\* the slot indices stored in the frame in progress (of stream a);
\* put_changed, put_written: the same for the frame put in this step
buffer_to_frame_pair_step ==
    /\ ret # None
    /\ ret.i < MaxBuffers
    /\ ret.event_a # "raise" /\ ret.event_b # "raise"
    /\ LET i  == ret.i + 1
           ra == BufferToFrameBody(config, ret.a, args.a[i])
           rb == BufferToFrameBody(config, ret.b, args.b[i])
           differ == args.a[i] # args.b[i]
       IN  ret' = [i |-> i,
                   a |-> [cur_fm_num |-> ra.cur_fm_num, frame_buffer |-> ra.frame_buffer],
                   b |-> [cur_fm_num |-> rb.cur_fm_num, frame_buffer |-> rb.frame_buffer],
                   event_a |-> ra.event, event_b |-> rb.event,
                   index_a |-> ra.index, index_b |-> rb.index,
                   put_a |-> ra.put, put_b |-> rb.put,
                   changed |-> IF ra.event = "put" THEN differ
                               ELSE IF ra.event = "store" THEN ret.changed \/ differ
                               ELSE ret.changed,
                   put_changed |-> ret.changed,
                   written |-> IF ra.event = "put" THEN {ra.index}
                               ELSE IF ra.event = "store" THEN ret.written \cup {ra.index}
                               ELSE ret.written,
                   put_written |-> ret.written]
    /\ args' = args
    /\ Unchanged_pipeline

PairNext == buffer_to_frame_pair_start \/ buffer_to_frame_pair_step

PairSpec == PairInit /\ [][PairNext]_vars

\* ---- the sizes _parse_header hands to the decoder ----

MaxHeaderBytes == 16
MaxPreambleBytes == 8

\* the decoder counts header and preamble in 32-bit words
BytesPerWord == 4

\* int(len(Bits(self.config.preamble)) / 32) for a preamble of nbits bits
PreambleLengthWords(nbits) == nbits \div 32

\* Device configurations whose header_len is any whole number of bytes, with
\* frames of more than one buffer
HeaderConfigs ==
    [frame_width : {8}, frame_height : {4},
     buffer_block_length : {3}, block_size : {8},
     header_len : {8 * k : k \in 1..MaxHeaderBytes}, pix_depth : {8},
     preamble : {<<Preamble>>}]

\* args.preamble_len: the bit length of the configured preamble, any whole
\* number of bytes
HeaderInit ==
    /\ config \in HeaderConfigs
    /\ WordDevice
    /\ NoBinary
    /\ kwargs = DefaultKwargs
    /\ Constructed
    /\ args \in [preamble_len : {8 * k : k \in 1..MaxPreambleBytes}]

\* the header_length_words and preamble_length_words arguments of
\* BufferFormatter.bytebuffer_to_ndarrays, in bytes, and the header bits
\* px_per_buffer takes off a buffer
call_parse_header ==
    /\ ret = None
    /\ ret' = [header_bytes |-> BytesPerWord * header_length_words(config),
               preamble_bytes |-> BytesPerWord * PreambleLengthWords(args.preamble_len),
               npix_header_bits |-> 8 * config.buffer_block_length * config.block_size
                                      - 8 * buffer_npix(config)[1]]
    /\ UNCHANGED <<config, device, binary, kwargs, terminate, Q1, Q2, Q3, f_vars, g_vars,
                   a_vars, d_vars, log, args>>

HeaderNext == call_parse_header

HeaderSpec == HeaderInit /\ [][HeaderNext]_vars

-----------------------------------------------------------------------------
(* Properties *)

RECURSIVE SumSeq(_)
SumSeq(s) == IF s = <<>> THEN 0 ELSE Head(s) + SumSeq(Tail(s))

IsPrefix(s, t) == Len(s) <= Len(t) /\ s = SubSeq(t, 1, Len(s))

NonDecreasing(s) == \A i \in 1..(Len(s) - 1) : s[i] <= s[i + 1]

\* the header the Grouper holds, once the buffer has been decoded
Decoded ==
    /\ g_pc \in {"check", "put"}
    /\ ~ParseFails(config, serial_buffer.buf)

\* the Grouper processes the buffer it holds (the cancel flag is not set)
Processing == buffer_to_frame_step /\ ~terminate

\* a slot array (not the sentinel) is put on Q2 in this step
PutsFrameOnQ2 == Len(Q2') > Len(Q2) /\ Q2'[Len(Q2')] # None

\* C1: in every capture that has shut down, exactly one sentinel was put on
\* each of Q1, Q2 and Q3, and no data item was put on a queue after its
\* sentinel.
C1_SentinelOncePerCapture ==
    d_pc = "returned" =>
        /\ log.sent = <<1, 1, 1>>
        /\ log.late = <<FALSE, FALSE, FALSE>>

\* the three stage processes are running
StagesRunning ==
    /\ f_pc \in {"init", "loop", "put", "sentinel"}
    /\ g_pc \in {"get", "check", "put", "finally"}
    /\ a_pc \in {"get", "check", "put", "finally"}

\* C2: whenever the cancel flag is set while the stages run, the Framer, the
\* Grouper and the Frame Assembler each eventually stop by themselves, having
\* put the sentinel on their downstream queue.
C2_CancelStopsStages ==
    /\ [](f_pc = "done" => log.sent[1] = 1)
    /\ [](g_pc = "done" => log.sent[2] = 1)
    /\ [](a_pc = "done" => log.sent[3] = 1)
    /\ (terminate /\ StagesRunning)
          ~> (f_pc = "done" /\ g_pc = "done" /\ a_pc = "done")

\* C3: when the capture ended by end-of-stream (no user cancel, no stage
\* exception, every stage returned by itself), every buffer put on Q1 was
\* processed by the Grouper and every slot array put on Q2 was processed by
\* the Frame Assembler.
C3_NoDataLost ==
    (/\ d_pc = "returned"
     /\ f_pc = "done" /\ g_pc = "done" /\ a_pc = "done"
     /\ ~log.user_cancel /\ ~log.stage_exc) =>
        /\ log.proc[1] = log.put[1]
        /\ log.proc[2] = log.put[2]

\* C4: the Grouper puts a slot array on Q2 when and only when it processes an
\* accepted header (not dropped, not discarded as the first incomplete frame)
\* whose frame_num differs from cur_fm_num; a header with the same frame_num
\* causes no put, and a change of frame_num causes exactly one put.
C4_PutOnFrameChange ==
    [][ LET header == HeaderOf(serial_buffer.buf)
            accepted ==
                /\ header.frame_buffer_count < nbuffer_per_fm(config)
                /\ ~(cur_fm_num = -1 /\ header.frame_buffer_count # 0)
        IN  \* only when: a put is of the frame before an accepted header
            \* with a new frame_num, one array at a time, and that header's
            \* frame_num is then the current one
            /\ PutsFrameOnQ2 =>
                 /\ Decoded /\ accepted /\ header.frame_num # cur_fm_num
                 /\ Len(Q2') = Len(Q2) + 1
                 /\ cur_fm_num' = header.frame_num
                 /\ g_pc' = "get"
            \* when: processing such a header leads to the put and to nothing
            \* else, and processing any other header leads to no put
            /\ (Processing /\ Decoded) =>
                 /\ Q2' = Q2
                 /\ (g_pc' = "put") <=> (accepted /\ header.frame_num # cur_fm_num)
            /\ g_pc = "put" => (g_pc' \in {"put", "get", "killed"})
      ]_vars

\* C4 witness: two changes of frame_num (-1 to 0, 0 to 1) have caused two puts
C4_Witness ==
    /\ log.put[2] = 2
    /\ Len(metadata_list) = 2
    /\ cur_fm_num = 1
    /\ g_pc = "get"

\* C5: while cur_fm_num is -1, a buffer whose frame_buffer_count is not 0 is
\* discarded (no put on Q2, no slot write, cur_fm_num stays -1); nothing is
\* stored or emitted before the first header with frame_buffer_count 0.
C5_FirstIncompleteFrameDiscarded ==
    /\ []((cur_fm_num = -1 /\ g_pc \notin {"idle", "put"}) =>
            /\ frame_buffer = frame_buffer_prealloc(config)
            /\ log.put[2] = 0)
    /\ [][ (/\ Processing /\ Decoded
            /\ cur_fm_num = -1
            /\ HeaderOf(serial_buffer.buf).frame_buffer_count # 0) =>
               /\ Q2' = Q2
               /\ frame_buffer' = frame_buffer
               /\ cur_fm_num' = -1
               /\ g_pc' = "get"
         ]_vars

\* C5 witness: the first header had frame_buffer_count 1 (in range) and was
\* discarded, the Grouper is back at the queue
C5_Witness ==
    /\ cur_fm_num = -1
    /\ Len(metadata_list) = 1
    /\ metadata_list[1].frame_buffer_count = 1
    /\ g_pc = "get"
    /\ ~terminate

\* C6: a buffer whose frame_buffer_count is not below nbuffer_per_fm is dropped
\* and the Grouper goes on: no slot write, no put on Q2, cur_fm_num and
\* frame_buffer unchanged, also when its frame_num is new; every slot write
\* has an index in [0, nbuffer_per_fm).
C6_OutOfRangeDropped ==
    [][ LET header == HeaderOf(serial_buffer.buf)
        IN  /\ (/\ Processing /\ Decoded
                /\ header.frame_buffer_count >= nbuffer_per_fm(config)) =>
                   /\ Q2' = Q2
                   /\ frame_buffer' = frame_buffer
                   /\ cur_fm_num' = cur_fm_num
                   /\ g_pc' = "get"
            /\ (frame_buffer' # frame_buffer /\ g_pc # "idle") =>
                   /\ Decoded
                   /\ header.frame_buffer_count \in 0..(nbuffer_per_fm(config) - 1)
                   /\ Len(frame_buffer') = nbuffer_per_fm(config)
      ]_vars

\* C6 witness: after frame 0 was started, a header with a new frame_num and
\* frame_buffer_count 2 = nbuffer_per_fm was dropped
C6_Witness ==
    /\ Len(metadata_list) = 2
    /\ metadata_list[2] = [frame_num |-> 1, frame_buffer_count |-> 2]
    /\ cur_fm_num = 0
    /\ g_pc = "get"
    /\ ~terminate

\* C7: a buffer too short to hold preamble and header is dropped and is not
\* fatal: the Grouper goes on to the next item of Q1.
C7_ShortBufferNotFatal ==
    [][ (Processing /\ ParseFails(config, serial_buffer.buf)) =>
            (g_pc' = "get" /\ Q2' = Q2)
      ]_vars

\* C8: every item other than the sentinel the driver loop takes from Q3 is a
\* 2-D array of shape (frame_height, frame_width).
C8_ImageShape ==
    d_pc = "show" => image.shape = <<config.frame_height, config.frame_width>>

C10_StageFailureEndsCapture ==
    (f_pc = "failed") ~> (terminate /\ d_pc = "returned")

\* C11: once the driver loop has ended, capture() returns, and when it has
\* returned none of the three stage processes is alive, also when a stage was
\* blocked on a full or an empty queue.
C11_JoinedOrTerminated ==
    /\ [](d_pc = "returned" => (Exited(f_pc) /\ Exited(g_pc) /\ Exited(a_pc)))
    /\ (d_pc = "finally") ~> (d_pc = "returned")

\* C11 witness: capture() has returned after terminating the Grouper, which
\* was blocked on the empty Q1, and the Assembler, blocked on the empty Q2
C11_Witness ==
    /\ d_pc = "returned"
    /\ f_pc = "done" /\ g_pc = "killed" /\ a_pc = "killed"
    /\ Q1 = <<>> /\ Q2 = <<>>

\* C12: when the Grouper stops, on the sentinel or on the cancel flag, it puts
\* nothing but the sentinel on Q2, so the frame in progress is not emitted;
\* and the slot arrays already put on Q2, or taken by the Frame Assembler,
\* are not changed by any later step.
C12_NoPartialFrame ==
    [][ \* the cancel flag and the sentinel both lead to the finally block
        /\ (g_pc = "check" /\ terminate /\ g_pc' # g_pc) =>
               (g_pc' \in {"finally", "killed"} /\ Q2' = Q2)
        /\ (g_pc = "get" /\ g_pc' \notin {"get", "check"}) =>
               (g_pc' \in {"finally", "killed"} /\ Q2' = Q2)
        \* which puts the sentinel and nothing else
        /\ (g_pc = "finally" /\ g_pc' # g_pc) =>
               \/ g_pc' = "done" /\ Q2' = Append(Q2, None)
               \/ g_pc' = "killed" /\ Q2' = Q2
        /\ g_pc \in {"finally", "done", "killed"} =>
               /\ log'.put[2] = log.put[2]
               /\ g_pc' \in {"finally", "done", "killed"}
        \* the items of Q2 are only appended to and taken from, never changed
        /\ \/ Q2' = Q2
           \/ Q2 # <<>> /\ Q2' = Tail(Q2)
           \/ Len(Q2') = Len(Q2) + 1 /\ SubSeq(Q2', 1, Len(Q2)) = Q2
        /\ frame_data' # frame_data => (a_pc = "get" /\ frame_data' = Head(Q2))
      ]_vars

\* C12 witness: the Grouper has stopped by itself with frame 1 in progress (a
\* slot of it written); the prototype and frame 0 were put before, then the
\* sentinel
C12_Witness ==
    /\ g_pc = "done"
    /\ cur_fm_num = 1
    /\ frame_buffer # frame_buffer_prealloc(config)
    /\ log.q2tags = <<-1, 0>>
    /\ log.put[2] = 2 /\ log.sent[2] = 1

\* C13: with binary capture, the capture file is at every moment what it held
\* before the run followed by every chunk the device has returned, in read
\* order (so a chunk is in the file before a buffer cut from it is put on Q1);
\* a file that was empty equals the device input once the Framer has seen the
\* end of the stream.
C13_BinaryCaptureVerbatim ==
    /\ binary_file = log.file0 \o Concat(log.stream)
    /\ Len(log.stream) = nreads
    /\ (log.file0 = <<>> /\ f_pc \in {"sentinel", "done"} /\ ~log.user_cancel) =>
           binary_file = Concat(log.stream)

\* C13 witness: three chunks were read into an empty file, two buffers were
\* put on Q1, and the Framer has ended on end-of-stream
C13_Witness ==
    /\ binary /\ log.file0 = <<>>
    /\ f_pc = "done" /\ log.sent[1] = 1
    /\ Len(log.stream) = 3 /\ Len(binary_file) = 9
    /\ log.put[1] = 2

\* a device input: three whole buffers (frame 0, frame 1, frame 1), then the
\* end of the stream
Stream0 == << <<Preamble, 0, 7>>, <<Preamble, 4, 7>>, <<Preamble, 4, 7>> >>

\* the images of the run on Stream0 in which no stage sees the cancel flag
\* with an item in hand: the placeholder, the all-zero prototype the Grouper
\* puts first, and frame 0
Shown0 == << Zeros(6), Zeros(6), <<7, 0, 0, 0, 0, 0>> >>

\* the capture ended on the end of the stream and every stage returned by itself
EndedByEOS ==
    /\ d_pc = "returned"
    /\ f_pc = "done" /\ g_pc = "done" /\ a_pc = "done"
    /\ log.sent[1] = 1
    /\ ~log.user_cancel /\ ~log.stage_exc

\* C14: the capture is deterministic: every run on the device input Stream0
\* that ends on the end of the stream shows the same images, those of Shown0,
\* whatever the interleaving of the four processes.
C14_Deterministic ==
    (EndedByEOS /\ log.stream = Stream0) => log.shown = Shown0

\* C14 witness: one run on Stream0 does show the images of Shown0
C14_Witness ==
    /\ EndedByEOS
    /\ log.stream = Stream0
    /\ log.shown = Shown0

\* C16: for a header whose frame_buffer_count is in range, _trim returns an
\* array of exactly buffer_npix[frame_buffer_count] bytes: the first bytes of
\* a longer payload, a shorter payload followed by zero bytes only, a payload
\* of that length unchanged; trimming the result again returns the result.
C16_TrimExactLength ==
    "val" \in DOMAIN ret =>
        LET data     == args.data
            expected == args.expected_size_array[args.header.frame_buffer_count + 1]
            r        == ret.val
        IN  /\ args.header.frame_buffer_count < Len(args.expected_size_array)
            /\ Len(r) = expected
            /\ Len(data) > expected => r = SubSeq(data, 1, expected)
            /\ Len(data) < expected =>
                   /\ SubSeq(r, 1, Len(data)) = data
                   /\ \A i \in (Len(data) + 1)..expected : r[i] = 0
            /\ Len(data) = expected => r = data
            /\ "again" \in DOMAIN ret => ret.again = r

\* C16 witness: a payload of one byte was padded to the four bytes of slot 0,
\* and trimmed again
C16_Witness ==
    /\ DOMAIN ret = {"val", "again"}
    /\ args.data = <<3>>
    /\ args.header.frame_buffer_count = 0
    /\ ret.val = <<3, 0, 0, 0>>

\* C17: when readData signals the end of the stream or a read error, the
\* Framer sets the cancel flag, and the only thing it does after that is to
\* put the sentinel on Q1 and return: no further read, nothing more on Q1.
C17_NothingAfterEndOfStream ==
    [][ \* the read that raises sets the flag, and reads and puts nothing
        /\ (f_pc = "loop" /\ f_pc' = "sentinel") =>
               (terminate' /\ Q1' = Q1 /\ nreads' = nreads)
        /\ f_pc = "sentinel" => terminate
        \* the next step of the Framer puts the sentinel and ends it
        /\ (f_pc = "sentinel" /\ f_pc' # f_pc) =>
               \/ f_pc' = "done" /\ Q1' = Append(Q1, None) /\ log'.sent[1] = 1
               \/ f_pc' = "killed" /\ Q1' = Q1
        \* from the end of the stream on: no read, no buffer on Q1
        /\ (f_pc = "sentinel" \/ log.sent[1] > 0) =>
               /\ nreads' = nreads
               /\ log'.stream = log.stream
               /\ log'.put[1] = log.put[1]
               /\ log'.sent[1] <= 1
               /\ f_pc' \in {"sentinel", "done", "killed"}
               /\ \/ Q1' = Q1
                  \/ Q1' = Append(Q1, None)
                  \/ Q1 # <<>> /\ Q1' = Tail(Q1)
      ]_vars

\* C17 witness: after two chunks the device signalled the end of the stream;
\* the Framer has set the flag, put the sentinel behind the buffer and ended
C17_Witness ==
    /\ f_pc = "done"
    /\ terminate
    /\ nreads = 2
    /\ log.put[1] = 1 /\ log.sent[1] = 1
    /\ Q1 # <<>> /\ Q1[Len(Q1)] = None

\* the regions between consecutive occurrences of the preamble in the stream
\* read so far, in stream order
Regions ==
    LET all == Concat(log.stream)
        p   == FindAll(all, pre)
    IN  [i \in 1..(IF p = <<>> THEN 0 ELSE Len(p) - 1) |-> Slice(all, p[i], p[i + 1])]

\* C18: the items the Framer has put on Q1 are, in stream order, the regions
\* [p_i, p_i+1) between consecutive occurrences of the preamble in the stream
\* read so far, each put once (all of them once the Framer is back at its
\* loop test), and each item begins with the preamble; what precedes the
\* first preamble and what follows the last one is on no item.
C18_InterPreambleRegions ==
    /\ IsPrefix(log.q1items, Regions)
    /\ f_pc \in {"loop", "sentinel", "done"} => log.q1items = Regions
    /\ \A i \in 1..Len(log.q1items) : IsPrefix(pre, log.q1items[i])

\* C18 witness: the Framer is back at its loop test having put every region of
\* the stream on Q1, and two occurrences of the preamble overlapped: one of
\* the regions is shorter than the preamble
C18_Witness ==
    /\ f_pc = "loop"
    /\ log.q1items # <<>>
    /\ log.q1items = Regions
    /\ \E i \in 1..Len(log.q1items) : Len(log.q1items[i]) < Len(pre)

\* C15: for every configuration with px_per_buffer > 0, buffer_npix is
\* floor(frame_width * frame_height / px_per_buffer) entries equal to
\* px_per_buffer, then one entry equal to the remainder, and its sum is
\* frame_width * frame_height (px_per_buffer and the remainder are compared in
\* eighths of a pixel, header_len being in bits).
C15_BufferNpixSum ==
    ret # None =>
        LET r               == ret.val
            px_per_frame    == config.frame_width * config.frame_height
            px_per_buffer_8 == 8 * config.buffer_block_length * config.block_size
                                  - config.header_len
            q               == (8 * px_per_frame) \div px_per_buffer_8
        IN  /\ Len(r) = q + 1
            /\ \A i \in 1..q : 8 * r[i] = px_per_buffer_8
            /\ 8 * r[q + 1] = 8 * px_per_frame - q * px_per_buffer_8
            /\ SumSeq(r) = px_per_frame

\* the slot array the Assembler holds does not make up a frame
Mismatched ==
    Len(Concat(frame_data.slots)) # config.frame_width * config.frame_height

\* np.zeros((frame_width, frame_height)): the shape the Assembler gives every
\* frame
ZeroFrame ==
    [shape |-> <<config.frame_width, config.frame_height>>,
     data  |-> Zeros(config.frame_width * config.frame_height)]

C20_UnknownSourceRaises ==
    (d_pc # "start" /\ args[1] \notin {"uart", "fpga"}) =>
        /\ d_pc = "raised"
        /\ f_pc = "idle" /\ g_pc = "idle" /\ a_pc = "idle"
        /\ Q1 = <<>> /\ Q2 = <<>>
        /\ Q3 = <<Placeholder(config)>>
        /\ log.put = <<0, 0, 0>> /\ log.sent = <<0, 0, 0>>

\* C20 witness: capture("other") has raised
C20_Witness ==
    /\ d_pc = "raised"
    /\ args = <<"other">>
    /\ Q3 = <<Placeholder(config)>>

\* the rows of the headers decoded so far, in the order of the metadata list
HeaderRows == [i \in 1..Len(metadata_list) |-> Row(metadata_list[i])]

\* C21: every buffer the Grouper takes from Q1 and decodes appends exactly one
\* header to the metadata list and, with a CSV sink, exactly one row to the
\* CSV, after the one row of field names and in arrival order, also when the
\* buffer is then dropped or discarded; nothing else appends, so the CSV has as
\* many data rows as buffers were decoded.
C21_OneRowPerDecodedBuffer ==
    /\ [](d_pc \notin {"start", "raised"} =>
            /\ Len(metadata_list) = log.proc[1]
            /\ metadata_list =
                  [i \in 1..Len(metadata_list) |-> HeaderOf(log.q1items[i])]
            /\ csv = IF Given("metadata") THEN <<FieldNames>> \o HeaderRows ELSE <<>>)
    /\ [][ IF Processing /\ Decoded
           THEN /\ metadata_list' = Append(metadata_list, HeaderOf(serial_buffer.buf))
                /\ Given("metadata") =>
                      csv' = Append(csv, Row(HeaderOf(serial_buffer.buf)))
           ELSE d_pc # "start" => (metadata_list' = metadata_list /\ csv' = csv)
         ]_vars

\* C21 witness: with a CSV sink, the first buffer was discarded (frame not yet
\* started, frame_buffer_count 1) and the second dropped (frame_buffer_count 2
\* is out of range); the CSV holds the field names and their two rows
C21_Witness ==
    /\ Given("metadata")
    /\ g_pc = "get"
    /\ cur_fm_num = -1
    /\ Len(metadata_list) = 2
    /\ metadata_list[1].frame_buffer_count = 1
    /\ metadata_list[2].frame_buffer_count = 2
    /\ log.put[2] = 0
    /\ csv = <<FieldNames, <<0, 1>>, <<1, 2>>>>

\* the state of a sink of the driver that is in use: instantiated once and
\* released the given number of times; a sink not asked for is never touched
SinkIs(sink, name, released) ==
    sink = IF Given(name) THEN [opened |-> 1, released |-> released] ELSE NoSink

\* C22: the video writer (video given) and the plot sink (show_metadata true)
\* are instantiated before the drain loop starts, stay open during the loop,
\* and are released exactly once when the loop has ended, whichever way it
\* ended: sentinel, ESC, KeyboardInterrupt or another exception.
C22_SinksReleasedOnce ==
    /\ d_pc \in {"get", "show", "finally"} =>
          /\ SinkIs(writer, "video", 0)
          /\ SinkIs(header_plotter, "show_metadata", 0)
    /\ d_pc \in {"join", "returned"} =>
          /\ SinkIs(writer, "video", 1)
          /\ SinkIs(header_plotter, "show_metadata", 1)

\* C22 witness: a capture with a video writer was ended from the keyboard or
\* by an exception after a frame was shown, and has returned
C22_Witness ==
    /\ d_pc = "returned"
    /\ Given("video")
    /\ log.user_cancel
    /\ Len(log.shown) >= 2
    /\ writer = [opened |-> 1, released |-> 1]
    /\ header_plotter = NoSink

\* C23: when capture() starts the three stage processes the cancel flag is
\* clear, also in a capture called on a StreamDaq whose previous capture ended
\* with the flag set; and within one capture the flag, once set, stays set.
C23_FlagClearAtStart ==
    [][ /\ (d_pc = "start" /\ d_pc' # "start") => ~terminate'
        /\ (f_pc = "idle" /\ f_pc' # "idle") =>
               (~terminate' /\ g_pc' = "get" /\ a_pc' = "get")
        /\ (terminate /\ d_pc # "start") => terminate'
      ]_vars

\* C23 witness: the previous capture ended with the flag set; this one has
\* started its stages, and the Framer has read a chunk with the flag clear
C23_Witness ==
    /\ log.again
    /\ ~terminate
    /\ f_pc = "loop" /\ g_pc = "get" /\ a_pc = "get"
    /\ nreads = 1

\* C24: payload bytes do not influence grouping.  For two streams with the
\* same headers and payload lengths and different payload bytes, the Grouper
\* does the same with every buffer (raise, drop, discard, put and store, or
\* store), at the same slot index and with the same cur_fm_num, puts frames at
\* the same points, and a frame put that holds no changed payload is the same
\* in both runs.
C24_PayloadIndependent ==
    ret # None =>
        /\ ret.event_a = ret.event_b
        /\ ret.index_a = ret.index_b
        /\ ret.a.cur_fm_num = ret.b.cur_fm_num
        /\ Len(ret.put_a) = Len(ret.put_b)
        /\ ~ret.put_changed => ret.put_a = ret.put_b
        /\ ~ret.changed => ret.a.frame_buffer = ret.b.frame_buffer

\* C24 witness: the third buffer starts a new frame with payloads that differ
\* between the streams; the frame put in that step holds a payload, none that
\* was changed, and is the same in both runs, while the frames in progress
\* differ
C24_Witness ==
    /\ ret # None
    /\ ret.i = 3
    /\ ret.event_a = "put"
    /\ args.a[3] # args.b[3]
    /\ ret.put_a = ret.put_b
    /\ ret.put_a # <<frame_buffer_prealloc(config)>>
    /\ ~ret.put_changed
    /\ ret.a.frame_buffer # ret.b.frame_buffer

\* max(self.buffer_npix)
MaxNpix(c) ==
    LET npix == buffer_npix(c)
    IN  CHOOSE m \in {npix[i] : i \in 1..Len(npix)} : \A i \in 1..Len(npix) : npix[i] <= m

\* C25: when read_length is not given, the length of the reads is
\* floor(max(buffer_npix) * pix_depth / 8 / 16) * 16 bytes: a multiple of 16,
\* not larger than max(buffer_npix) * pix_depth / 8 and less than 16 below it;
\* every read of the capture has that length.
C25_DefaultReadLength ==
    ~Given("read_length") =>
        LET bits == MaxNpix(config) * config.pix_depth
        IN  /\ ReadLength(config) % 16 = 0
            /\ 8 * ReadLength(config) <= bits
            /\ bits < 8 * (ReadLength(config) + 16)
            /\ \A i \in 1..Len(log.stream) :
                   4 * Len(log.stream[i]) = ReadLength(config)

\* C25 witness: three reads of 16 bytes where the largest buffer holds 20
\* bytes (16 pixels of 10 bits)
C25_Witness ==
    /\ ~Given("read_length")
    /\ config.pix_depth = 10
    /\ MaxNpix(config) = 16
    /\ Len(log.stream) = 3
    /\ \A i \in 1..3 : Len(log.stream[i]) = 4

\* the payload of a buffer cut or zero-padded to the size of its slot
SlotData(buf) ==
    LET data == PayloadOf(config, buf)
        n    == buffer_npix(config)[HeaderOf(buf).frame_buffer_count + 1]
    IN  [k \in 1..n |-> IF k <= Len(data) THEN data[k] ELSE 0]

\* C26: for every accepted buffer the Grouper writes the trimmed payload into
\* slot frame_buffer_count of the frame buffer (the fresh one when the buffer
\* starts a frame) and changes no other slot; buffers are written as they
\* arrive, so a later buffer of the same frame with the same
\* frame_buffer_count replaces what an earlier one wrote.
C26_SlotWrite ==
    [][ LET header == HeaderOf(serial_buffer.buf)
            index  == header.frame_buffer_count + 1
        IN  \* a buffer of the frame in progress
            /\ (/\ Processing /\ Decoded
                /\ index <= nbuffer_per_fm(config)
                /\ header.frame_num = cur_fm_num) =>
                   /\ frame_buffer'[index] = SlotData(serial_buffer.buf)
                   /\ \A j \in 1..Len(frame_buffer) :
                          j # index => frame_buffer'[j] = frame_buffer[j]
                   /\ Len(frame_buffer') = Len(frame_buffer)
                   /\ Q2' = Q2
            \* the buffer that starts a frame, once the previous frame is put
            /\ (g_pc = "put" /\ g_pc' = "get") =>
                   /\ frame_buffer'[index] = SlotData(serial_buffer.buf)
                   /\ \A j \in 1..Len(frame_buffer) :
                          j # index => frame_buffer'[j] = frame_buffer_prealloc(config)[j]
                   /\ Len(frame_buffer') = Len(frame_buffer)
      ]_vars

\* C26 witness: two buffers of frame 1 with frame_buffer_count 0 were written
\* one after the other; slot 0 holds the payload of the second, which differs
\* from that of the first
C26_Witness ==
    /\ g_pc = "get"
    /\ log.proc[1] = 2
    /\ Len(metadata_list) = 2
    /\ metadata_list[1] = metadata_list[2]
    /\ cur_fm_num = metadata_list[2].frame_num
    /\ SlotData(log.q1items[1]) # SlotData(log.q1items[2])
    /\ frame_buffer[metadata_list[2].frame_buffer_count + 1] = SlotData(log.q1items[2])

\* a slot array has nbuffer_per_fm slots, slot i of length buffer_npix[i]
WellSized(slots) ==
    /\ Len(slots) = nbuffer_per_fm(config)
    /\ \A i \in 1..Len(slots) : Len(slots[i]) = buffer_npix(config)[i]

\* C27: in every state of the running Grouper frame_buffer has nbuffer_per_fm
\* slots and slot i has length buffer_npix[i]; so every slot array put on Q2
\* has frame_width * frame_height pixels in all, and the Assembler never
\* replaces a frame of the Grouper by the all-zero frame.
C27_SlotLengths ==
    /\ g_pc \notin {"idle"} => WellSized(frame_buffer)
    /\ \A i \in 1..Len(Q2) :
          Q2[i] # None =>
              /\ WellSized(Q2[i].slots)
              /\ Len(Concat(Q2[i].slots)) = config.frame_width * config.frame_height
    /\ a_pc \in {"check", "put"} => ~Mismatched

\* C27 witness: the Assembler holds a slot array of the Grouper that has the
\* sizes of buffer_npix and a payload, and is about to put its frame
C27_Witness ==
    /\ a_pc = "put"
    /\ WellSized(frame_data.slots)
    /\ frame_data.slots # frame_buffer_prealloc(config)
    /\ Mismatched

\* the stream read so far from the last occurrence of the preamble on
Tail0 ==
    LET all == Concat(log.stream)
        p   == FindAll(all, pre)
    IN  Slice(all, p[Len(p)], Len(all))

\* C28: whenever the Framer is at its loop test, or has left the loop, and a
\* preamble has been read, the rolling buffer is the stream read so far from
\* the last preamble on: it begins with the preamble and holds no other
\* occurrence of it.  The tail stays in the buffer and is not put on Q1,
\* also when the stream has ended.
C28_RollingBufferTail ==
    (f_pc \in {"loop", "sentinel", "done"} /\ FindAll(Concat(log.stream), pre) # <<>>) =>
        /\ cur_buffer = Tail0
        /\ IsPrefix(pre, cur_buffer)
        /\ FindAll(cur_buffer, pre) = <<0>>
        /\ log.q1items = Regions
        /\ \A i \in 1..Len(Q1) : Q1[i] # None => Q1[i].buf \in {Regions[j] : j \in 1..Len(Regions)}

\* C28 witness: the stream has ended, the sentinel is on Q1 after a buffer,
\* and the rolling buffer still holds the last preamble and what followed it
C28_Witness ==
    /\ f_pc = "done"
    /\ log.sent[1] = 1
    /\ log.put[1] >= 1
    /\ Len(cur_buffer) > Len(pre)
    /\ cur_buffer = Tail0
    /\ Len(log.stream) = 3

\* C29: what the Framer puts on Q1 does not depend on how the stream is cut
\* into chunks.  Whatever the read length, once the Framer has left its loop
\* the buffers it has put on Q1 are the split of the concatenation of the
\* chunks at the occurrences of the preamble (a function of the stream alone,
\* so two runs over the same stream with different read lengths put the same
\* buffers), also when a chunk boundary lies inside a preamble.
C29_ChunkIndependent ==
    f_pc \in {"sentinel", "done"} =>
        /\ log.q1items = Regions
        /\ log.put[1] = Len(Regions)

\* C29 witness: with reads of 8 bytes the second preamble lay across two
\* chunks; the Framer has put the one buffer of the stream and the sentinel
C29_Witness ==
    /\ kwargs.read_length = 8
    /\ log.stream = <<<<Preamble, Preamble>>, <<4, Preamble>>, <<Preamble, 4>>>>
    /\ f_pc = "done"
    /\ log.sent[1] = 1
    /\ log.q1items = <<<<Preamble, Preamble, 4>>>>

\* buffer i of the decoded stream starts a frame
StartsFrame(i) ==
    i = 1 \/ metadata_list[i].frame_num # metadata_list[i - 1].frame_num

\* the decoded stream is made of whole frames: every buffer has an index in
\* range and every frame starts with frame_buffer_count 0
WholeFrames ==
    /\ metadata_list # <<>>
    /\ \A i \in 1..Len(metadata_list) :
          /\ metadata_list[i].frame_buffer_count < nbuffer_per_fm(config)
          /\ StartsFrame(i) => metadata_list[i].frame_buffer_count = 0

\* the buffers that start a frame, and their number K
FrameStarts == { i \in 1..Len(metadata_list) : StartsFrame(i) }

RECURSIVE SlotsUpTo(_)
\* the slots of the frame buffer i belongs to, after buffers up to i were written
SlotsUpTo(i) ==
    LET before == IF StartsFrame(i) THEN frame_buffer_prealloc(config)
                                    ELSE SlotsUpTo(i - 1)
    IN  [before EXCEPT ![metadata_list[i].frame_buffer_count + 1] =
                           SlotData(log.q1items[i])]

\* C30: when the buffers decoded so far are K >= 1 whole frames, the Grouper
\* has put exactly K slot arrays on Q2: the first is the all-zero prototype,
\* the j-th is frame j - 1 as its buffers filled it, and the K-th frame is
\* still in frame_buffer; it is not put either when the sentinel arrives.
C30_FrameCount ==
    (g_pc \in {"get", "finally", "done"} /\ WholeFrames) =>
        LET K == Cardinality(FrameStarts)
        IN  /\ log.put[2] = K
            /\ Len(log.q2items) = K
            /\ log.q2items[1] = frame_buffer_prealloc(config)
            /\ \A i \in FrameStarts :
                   i > 1 =>
                     log.q2items[Cardinality({j \in FrameStarts : j <= i})] = SlotsUpTo(i - 1)
            /\ frame_buffer = SlotsUpTo(Len(metadata_list))

\* C30 witness: two frames of one buffer each were consumed before the
\* sentinel; the Grouper has ended after two puts, the prototype and frame 1,
\* and frame 2 is left in frame_buffer
C30_Witness ==
    /\ g_pc = "done"
    /\ ~log.stage_exc
    /\ WholeFrames
    /\ Cardinality(FrameStarts) = 2
    /\ Len(metadata_list) = log.put[1]
    /\ log.put[2] = 2
    /\ log.q2items[1] = frame_buffer_prealloc(config)
    /\ log.q2items[2] # frame_buffer_prealloc(config)
    /\ frame_buffer = SlotsUpTo(2)

\* C31: no data passes from one frame into the next.  In every slot array
\* the Grouper puts on Q2, a slot for which no buffer was accepted while that
\* frame was the current one is buffer_npix[i] zero bytes, whatever earlier
\* frames wrote at that index.
C31_NoLeakBetweenFrames ==
    (ret # None /\ ret.put_a # <<>>) =>
        /\ Len(ret.put_a[1]) = nbuffer_per_fm(config)
        /\ \A i \in 1..nbuffer_per_fm(config) :
              (i - 1) \notin ret.put_written =>
                  /\ ret.put_a[1][i] = Zeros(buffer_npix(config)[i])
                  /\ ret.put_b[1][i] = Zeros(buffer_npix(config)[i])

\* C31 witness: frame 1 had a payload in slot 0, the next frame had a buffer
\* for slot 1 only; that frame is put with slot 0 all zeros
C31_Witness ==
    /\ ret # None
    /\ ret.i = 3
    /\ args.a[1] = <<Preamble, 4, 7>>
    /\ args.a[2] = <<Preamble, 1, 7>>
    /\ ret.event_a = "put"
    /\ ret.put_written = {1}
    /\ ret.put_a = << <<Zeros(4), <<7, 0>>>> >>

\* C33: the number of header bytes the decoder is told to split off is
\* header_len / 8 and the number of preamble bytes is preamble_len / 8, for
\* every header_len and preamble length that is a multiple of 8 bits; the
\* decoder's header size is the header_len / 8 bytes px_per_buffer subtracts.
C33_DecoderSizes ==
    ret # None =>
        /\ 8 * ret.header_bytes = config.header_len
        /\ 8 * ret.preamble_bytes = args.preamble_len
        /\ 8 * ret.header_bytes = ret.npix_header_bits

\* C33, whole words only: the three sizes agree when header_len and the
\* preamble length are multiples of 32 bits
C33_WholeWordSizes ==
    (ret # None /\ config.header_len % 32 = 0 /\ args.preamble_len % 32 = 0) =>
        /\ 8 * ret.header_bytes = config.header_len
        /\ 8 * ret.preamble_bytes = args.preamble_len
        /\ 8 * ret.header_bytes = ret.npix_header_bits

\* C33 witness: a 40-bit header is handed to the decoder as one word
C33_Witness ==
    /\ ret # None
    /\ config.header_len = 40
    /\ ret.header_bytes = 4
    /\ ret.npix_header_bits = 40

\* the driver leaves its loop in this step without having taken the sentinel
\* from Q3
LeavesLoopWithoutSentinel ==
    /\ d_pc \in {"get", "show"}
    /\ d_pc' = "finally"
    /\ ~(d_pc = "get" /\ Q3 # <<>> /\ Head(Q3) = None /\ Q3' = Tail(Q3))

\* C34: whenever the driver loop ends for a reason other than taking the
\* sentinel from Q3 (ESC in the display, KeyboardInterrupt, an exception while
\* handling a frame), the cancel flag is set in that step, and it is set when
\* the controller starts and goes on joining the stage processes.
C34_CancelBeforeJoin ==
    /\ [][LeavesLoopWithoutSentinel => terminate']_vars
    /\ []((log.user_cancel /\ d_pc \in {"finally", "join", "returned"}) => terminate)

\* C34 witness: the loop was left by an exception before the Framer read
\* anything, and the controller is at the first join with the flag set
C34_Witness ==
    /\ log.user_cancel
    /\ d_pc = "join"
    /\ p_idx = 1
    /\ nreads = 0
    /\ ~Exited(f_pc)
    /\ terminate

\* C32: bounded response to cancel.  After the cancel flag is set the Grouper
\* puts at most one more slot array on Q2 and the Assembler at most one more
\* frame on Q3 before each puts its sentinel, and an item a stage looks at
\* with the flag set is dropped without being processed: the stage goes to
\* its sentinel and nothing of the item is recorded, stored or put.
C32_BoundedResponseToCancel ==
    /\ [](log.after_cancel[2] <= 1 /\ log.after_cancel[3] <= 1)
    /\ [][(buffer_to_frame_step /\ terminate) =>
             /\ g_pc' = "finally"
             /\ log'.proc = log.proc
             /\ UNCHANGED <<Q2, frame_buffer, cur_fm_num, metadata_list, csv>>]_vars
    /\ [][(format_frame_step /\ terminate) =>
             /\ a_pc' = "finally"
             /\ log'.proc = log.proc
             /\ UNCHANGED Q3]_vars

\* C32 witness: both stages had a put in hand when the flag was set, made
\* that one put and then their sentinel, and a buffer of Q1 went unprocessed
C32_Witness ==
    /\ terminate
    /\ log.after_cancel[2] = 1
    /\ log.after_cancel[3] = 1
    /\ log.sent[2] = 1
    /\ log.sent[3] = 1
    /\ log.proc[1] < log.put[1]

====
